---- MODULE Spec2Model ----
(***************************************************************************)
(* State-machine model of src/cli/yank-cli.py: the interactive script that *)
(* resolves a track / album / playlist link through the metadata service   *)
(* and downloads the selected tracks from the delivery endpoint.           *)
(*                                                                         *)
(* Python strings are sequences of one-character strings, so that          *)
(* normalize_filename, str.split, int() and the `in` substring test are    *)
(* computed character by character.                                        *)
(***************************************************************************)
EXTENDS Integers, Sequences, FiniteSets, TLC

(***************************************************************************)
(* Bounds of the model.                                                    *)
(***************************************************************************)
\* longest raw track list the service hands out (album list, or all pages
\* of one playlist attempt together)
MaxTracks == 2
\* largest nextOffset cursor the service returns
MaxOffset == 2
\* most integers typed at the selection prompt
MaxSelLen == 2

(***************************************************************************)
(* Program constants.                                                      *)
(***************************************************************************)
\* variant: one attempt more
max_retries_mut == 3 + 1
\* default of the max_retries parameter of the four retried functions
max_retries == 3

(***************************************************************************)
(* Characters and strings.                                                 *)
(***************************************************************************)
\* characters str.split() / str.strip() treat as whitespace
Whitespace == {" ", "\t", "\n"}

\* FILENAME_SANITIZATION_PATTERN: [<>:\"\/\\|?*\|\']
FILENAME_SANITIZATION_PATTERN == {"<", ">", ":", "\"", "/", "\\", "|", "?", "*", "'"}

Digits == {"0", "1", "2", "3", "4", "5", "6", "7", "8", "9"}

RECURSIVE Concat(_)
\* ''.join(list of strings)
Concat(ss) == IF ss = <<>> THEN <<>> ELSE Head(ss) \o Concat(Tail(ss))

RECURSIVE JoinWith(_, _)
\* sep.join(words)
JoinWith(sep, words) ==
    IF words = <<>> THEN <<>>
    ELSE IF Len(words) = 1 THEN Head(words)
    ELSE Head(words) \o sep \o JoinWith(sep, Tail(words))

RECURSIVE SplitAcc(_, _, _)
\* scan of str.split(): cur is the word being read, acc the words finished
SplitAcc(s, cur, acc) ==
    IF s = <<>>
    THEN IF cur = <<>> THEN acc ELSE Append(acc, cur)
    ELSE IF Head(s) \in Whitespace
         THEN SplitAcc(Tail(s), <<>>, IF cur = <<>> THEN acc ELSE Append(acc, cur))
         ELSE SplitAcc(Tail(s), Append(cur, Head(s)), acc)

\* str.split() without argument: words between runs of whitespace, no empty word
Split(s) == SplitAcc(s, <<>>, <<>>)

RECURSIVE LStrip(_)
LStrip(s) == IF s # <<>> /\ Head(s) \in Whitespace THEN LStrip(Tail(s)) ELSE s

RECURSIVE RStrip(_)
RStrip(s) ==
    IF s # <<>> /\ s[Len(s)] \in Whitespace THEN RStrip(SubSeq(s, 1, Len(s) - 1)) ELSE s

\* str.strip()
Strip(s) == RStrip(LStrip(s))

\* variant: the apostrophe is not in the pattern
RemoveForbidden_mut(name) ==
    SelectSeq(name, LAMBDA c : c \notin FILENAME_SANITIZATION_PATTERN \ {"'"})
\* re.sub(FILENAME_SANITIZATION_PATTERN, '', name)
RemoveForbidden(name) ==
    SelectSeq(name, LAMBDA c : c \notin FILENAME_SANITIZATION_PATTERN)

\* variant: the characters are removed after the whitespace is collapsed
normalize_filename_mut(name) == RemoveForbidden(Strip(JoinWith(<<" ">>, Split(name))))
\* normalize_filename(name)
normalize_filename(name) == Strip(JoinWith(<<" ">>, Split(RemoveForbidden(name))))

\* needle in hay  (Python substring test)
Contains(hay, needle) ==
    \E i \in 1..(Len(hay) - Len(needle) + 1) :
        SubSeq(hay, i, i + Len(needle) - 1) = needle

DigitVal(c) == CHOOSE n \in 0..9 : <<"0", "1", "2", "3", "4", "5", "6", "7", "8", "9">>[n + 1] = c

RECURSIVE DigitsVal(_, _)
DigitsVal(s, acc) ==
    IF s = <<>> THEN acc ELSE DigitsVal(Tail(s), 10 * acc + DigitVal(Head(s)))

\* int(x) accepts an optional sign followed by one or more decimal digits
IsIntLiteral(x) ==
    LET body == IF x # <<>> /\ Head(x) \in {"+", "-"} THEN Tail(x) ELSE x
    IN  body # <<>> /\ \A i \in 1..Len(body) : body[i] \in Digits

\* int(x) for a token that IsIntLiteral
IntOf(x) ==
    IF Head(x) = "-" THEN 0 - DigitsVal(Tail(x), 0)
    ELSE IF Head(x) = "+" THEN DigitsVal(Tail(x), 0)
    ELSE DigitsVal(x, 0)

\* sequences over S of length at most n
BoundedSeq(S, n) == UNION {[1..k -> S] : k \in 0..n}

Map(f(_), s) == [i \in 1..Len(s) |-> f(s[i])]

(***************************************************************************)
(* The inputs the environment can supply: links typed at the prompt, and   *)
(* the data the metadata service and the delivery endpoint answer with.    *)
(***************************************************************************)
UrlTrack == <<"/", "t", "r", "a", "c", "k", "/", "7", "?", "s", "=", "1">>
UrlAlbum == <<"/", "a", "l", "b", "u", "m", "/", "8">>
UrlPlaylist == <<"/", "p", "l", "a", "y", "l", "i", "s", "t", "/", "9">>
UrlAlbumPlaylist == <<"/", "a", "l", "b", "u", "m", "/", "p", "l", "a", "y", "l", "i", "s", "t">>
Urls == {UrlTrack, UrlAlbum, UrlPlaylist, UrlAlbumPlaylist}

\* 'Unknown Album', the default of track.get('album', ...)
UnknownAlbum == <<"U", "n", "k", "n", "o", "w", "n", " ", "A", "l", "b", "u", "m">>

\* entries of a trackList / the metadata object of /download, as parsed JSON
RawTrack1 == [id |-> "1", title |-> <<"a">>, artists |-> <<"b">>,
              has_album |-> FALSE, album |-> <<>>]
RawTrack2 == [id |-> "2", title |-> <<"a", "/">>, artists |-> <<" ", "b", " ">>,
              has_album |-> TRUE, album |-> <<"m">>]
RawTrack3 == [id |-> "3", title |-> <<"b", " ", "\t", "a">>, artists |-> <<"?">>,
              has_album |-> FALSE, album |-> <<>>]
RawTracks == {RawTrack1, RawTrack2, RawTrack3}

\* the trackList of one playlist page answer
Pages == {<<>>, <<RawTrack1>>, <<RawTrack2>>, <<RawTrack3, RawTrack1>>}

\* an answer to a page request: only a 200 answer has a body
PageAnswers ==
    {[resp |-> r, trackList |-> <<>>, nextOffset |-> 0] :
        r \in {[exc |-> TRUE, status_code |-> 0], [exc |-> FALSE, status_code |-> 404]}}
    \cup {[resp |-> [exc |-> FALSE, status_code |-> 200], trackList |-> p, nextOffset |-> n] :
            p \in Pages, n \in 0..MaxOffset}

\* the trackList of an album answer, or of all pages of a playlist together
TrackLists ==
    {l \in {Concat(ps) : ps \in BoundedSeq(Pages \ {<<>>}, MaxTracks)} : Len(l) <= MaxTracks}

\* the 'title' of an album / playlist metadata answer
CollectionNames == {<<"m">>, <<" ", "m", ":", "n">>}

\* what one HTTP exchange can come to: a transport failure (requests raises
\* ConnectionError / Timeout), or a response with a status code
TransportError == [exc |-> TRUE, status_code |-> 0]
HttpResponse(code) == [exc |-> FALSE, status_code |-> code]
NoResponse == [exc |-> FALSE, status_code |-> 0]
MetadataResponses == {TransportError, HttpResponse(200), HttpResponse(404)}
DeliveryResponses == {TransportError, HttpResponse(200), HttpResponse(204), HttpResponse(404)}

\* outcome of open(..., "wb") + file.write(...): done, open() raises OSError
\* (nothing created), write() raises OSError (a truncated file is left)
WriteOutcomes == {"ok", "open_fails", "write_fails"}

\* file contents
OldContent == <<"old">>
Payload(tid) == <<"payload", tid>>
Truncated(tid) == <<"truncated", tid>>

\* os.getcwd()
Cwd == << <<".">> >>

\* os.path.join(path, component): an empty component adds no directory level
PathJoin(path, component) == IF component = <<>> THEN path ELSE Append(path, component)

\* os.path.join(outpath, f"{trackname}.mp3")
Mp3Path(dir, trackname) == [dir |-> dir, name |-> trackname \o <<".", "m", "p", "3">>]

(***************************************************************************)
(* State.                                                                  *)
(***************************************************************************)
VARIABLES
    pc,             \* position of main(): the next blocking call
    url,            \* the link read at the first prompt
    attempt,        \* loop variable of the retry loop that is running
    album_name,     \* album_name of fetch_album_metadata / main
    playlist_name,  \* playlist_name of fetch_playlist_metadata / main
    track_list,     \* track_list of fetch_playlist_metadata (raw entries)
    next_offset,    \* next_offset of fetch_playlist_metadata
    ret,            \* what the fetch_* function returned: "pending", "value", "None"
    songs,          \* songs of main()
    selection,      \* the text read at the selection prompt
    selected_songs, \* selected_songs of main(); <<track>> in the single-track branch
    outpath,        \* outpath of main(), a sequence of directory names
    idx,            \* position in selected_songs of the song being downloaded
    files,          \* the file system: path -> content
    dirs,           \* the directories that exist
    printed,        \* the closing message of the run
    tries,          \* iterations entered by the retry loop that ran last
    fails,          \* how many of them ended in the except clause
    wire,           \* the last HTTP exchange: endpoint, offset, response, nextOffset
    srvSent,        \* raw entries the service has sent in page answers since the
                    \* last playlist metadata request
    typed,          \* the integers the user typed at the selection prompt
    log             \* what the run did to the outside, in order: directories made,
                    \* delivery requests sent, files written, outcomes printed

vars == <<pc, url, attempt, album_name, playlist_name, track_list, next_offset, ret,
          songs, selection, selected_songs, outpath, idx, files, dirs, printed,
          tries, fails, wire, srvSent, typed, log>>

\* what the fetch_* functions and resolution leave alone once main() downloads
resolveVars == <<url, album_name, playlist_name, track_list, next_offset, ret, songs,
                 selection, srvSent, typed>>

\* variant: the artists are taken as the service sends them
TrackMetadata_mut(track, album) ==
    [title |-> normalize_filename(track.title),
     artists |-> track.artists,
     album |-> album,
     tid |-> track.id]
\* TrackMetadata(title=normalize_filename(..), artists=normalize_filename(..), album, tid)
TrackMetadata(track, album) ==
    [title |-> normalize_filename(track.title),
     artists |-> normalize_filename(track.artists),
     album |-> album,
     tid |-> track.id]

\* track.get('album', 'Unknown Album')
GetAlbum(track) == IF track.has_album THEN track.album ELSE UnknownAlbum

\* variant: raise_for_status() left out
RaisesRequestException_mut(resp) == resp.exc
\* requests.get raised, or response.raise_for_status() raises (4xx / 5xx)
RaisesRequestException(resp) ==
    resp.exc \/ (resp.status_code >= 400 /\ resp.status_code < 600)

\* trackname of download_track, normalised by persist_audio_file
TargetName(track) == normalize_filename(track.title \o <<" ", "-", " ">> \o track.artists)

\* names the tracks of the service map to
TargetNames == {TargetName(TrackMetadata(t, <<>>)) : t \in RawTracks}

\* directories main() can download into
OutputDirs == {Cwd} \cup {PathJoin(Cwd, normalize_filename(n)) : n \in CollectionNames}

\* entries of log
MakedirsEvent == [ev |-> "makedirs", idx |-> 0, tid |-> "", outcome |-> "none"]
RequestEvent(i, tid) == [ev |-> "request", idx |-> i, tid |-> tid, outcome |-> "none"]
WriteEvent(i, tid) == [ev |-> "write", idx |-> i, tid |-> tid, outcome |-> "none"]
OutcomeEvent(i, tid, outcome) == [ev |-> "outcome", idx |-> i, tid |-> tid, outcome |-> outcome]

Exchange(ep, offset, resp, next) == [ep |-> ep, offset |-> offset, resp |-> resp, next |-> next]

(***************************************************************************)
(* Initial state: the script has printed its banner and waits for the      *)
(* link.  Some target files may be there from an earlier run.              *)
(***************************************************************************)
Init ==
    /\ pc = "input_url"
    /\ url = <<>>
    /\ attempt = 0
    /\ album_name = <<>>
    /\ playlist_name = <<>>
    /\ track_list = <<>>
    /\ next_offset = 0
    /\ ret = "pending"
    /\ songs = <<>>
    /\ selection = <<>>
    /\ selected_songs = <<>>
    /\ outpath = Cwd
    /\ idx = 0
    /\ \E present \in SUBSET TargetNames :
          /\ files = [p \in {Mp3Path(d, n) : d \in OutputDirs, n \in present} |-> OldContent]
          /\ dirs = IF present = {} THEN {Cwd} ELSE OutputDirs
    /\ printed = "none"
    /\ tries = 0
    /\ fails = 0
    /\ wire = Exchange("none", 0, NoResponse, 0)
    /\ srvSent = <<>>
    /\ typed = <<>>
    /\ log = <<>>

(***************************************************************************)
(* main(): the link prompt and the dispatch on it.                         *)
(***************************************************************************)
\* variant: the playlist test comes first
Classify_mut(link) ==
    IF Contains(link, <<"p", "l", "a", "y", "l", "i", "s", "t">>) THEN "playlist"
    ELSE IF Contains(link, <<"a", "l", "b", "u", "m">>) THEN "album"
    ELSE "track"
\* "album" in url / "playlist" in url
Classify(link) ==
    IF Contains(link, <<"a", "l", "b", "u", "m">>) THEN "album"
    ELSE IF Contains(link, <<"p", "l", "a", "y", "l", "i", "s", "t">>) THEN "playlist"
    ELSE "track"

InputUrl(link) ==
    /\ pc = "input_url"
    /\ url' = link
    /\ pc' = CASE Classify(link) = "album" -> "album_metadata"
               [] Classify(link) = "playlist" -> "playlist_metadata"
               [] OTHER -> "track_metadata"
    /\ attempt' = 0
    /\ UNCHANGED <<album_name, playlist_name, track_list, next_offset, ret, songs,
                   selection, selected_songs, outpath, idx, files, dirs, printed,
                   tries, fails, wire, srvSent, typed, log>>

\* variant: main() goes on to the selection prompt after a failed fetch
FetchFailed_mut(restart) ==
    /\ fails' = (IF pc = restart /\ attempt = 0 THEN 0 ELSE fails) + 1
    /\ IF attempt < max_retries - 1
       THEN /\ attempt' = attempt + 1
            /\ pc' = restart
            /\ UNCHANGED <<ret, printed>>
       ELSE /\ attempt' = attempt
            /\ pc' = "select"
            /\ ret' = "None"
            /\ printed' = "fetch_failed"
\* the except clause of the fetch_* functions together with main()'s test
\* "if songs is None" / "if resp is None"
FetchFailed(restart) ==
    /\ fails' = (IF pc = restart /\ attempt = 0 THEN 0 ELSE fails) + 1
    /\ IF attempt < max_retries - 1
       THEN /\ attempt' = attempt + 1
            /\ pc' = restart
            /\ UNCHANGED <<ret, printed>>
       ELSE /\ attempt' = attempt
            /\ pc' = "done"
            /\ ret' = "None"
            /\ printed' = "fetch_failed"

\* entering the try block of a retry loop: iteration attempt + 1 of this loop
EnterTry == tries' = (IF attempt = 0 THEN 0 ELSE tries) + 1

\* an iteration that did not raise
NoFail == fails' = (IF attempt = 0 THEN 0 ELSE fails)

(***************************************************************************)
(* fetch_track_metadata and the single-track branch of main().             *)
(***************************************************************************)
\* resp is the exchange, success / track the parsed body of a 200 answer
FetchTrackMetadata(resp, success, track) ==
    /\ pc = "track_metadata"
    /\ EnterTry
    /\ wire' = Exchange("download", 0, resp, 0)
    /\ IF RaisesRequestException(resp)
       THEN /\ FetchFailed("track_metadata")
            /\ UNCHANGED <<selected_songs, idx>>
       ELSE /\ NoFail
            /\ ret' = "value"
            /\ IF success = FALSE
               THEN \* resp.get('success') == False
                    /\ printed' = "fetch_failed"
                    /\ pc' = "done"
                    /\ UNCHANGED <<selected_songs, idx, attempt>>
               ELSE /\ selected_songs' = <<TrackMetadata(track, GetAlbum(track))>>
                    /\ idx' = 1
                    /\ attempt' = 0
                    /\ pc' = "download"
                    /\ UNCHANGED printed
    /\ UNCHANGED <<url, album_name, playlist_name, track_list, next_offset, songs,
                   selection, outpath, files, dirs, srvSent, typed, log>>

\* variant: a failed request is sent again by itself
AlbumRestart_mut == "album_tracklist"
\* where "for attempt in range(max_retries)" of fetch_album_metadata starts
\* over: both requests are in the one try block
AlbumRestart == "album_metadata"

(***************************************************************************)
(* fetch_album_metadata.                                                   *)
(***************************************************************************)
\* GET /metadata/album/{id}
FetchAlbumMetadata(resp, name) ==
    /\ pc = "album_metadata"
    /\ EnterTry
    /\ wire' = Exchange("metadata_album", 0, resp, 0)
    /\ IF RaisesRequestException(resp)
       THEN /\ FetchFailed(AlbumRestart)
            /\ UNCHANGED album_name
       ELSE /\ album_name' = name
            /\ pc' = "album_tracklist"
            /\ NoFail
            /\ UNCHANGED <<attempt, ret, printed>>
    /\ UNCHANGED <<url, playlist_name, track_list, next_offset, songs, selection,
                   selected_songs, outpath, idx, files, dirs, srvSent, typed, log>>

\* GET /tracklist/album/{id}, and the list of TrackMetadata built from it
FetchAlbumTracklist(resp, tracks) ==
    /\ pc = "album_tracklist"
    /\ wire' = Exchange("tracklist_album", 0, resp, 0)
    /\ IF RaisesRequestException(resp)
       THEN /\ FetchFailed(AlbumRestart)
            /\ UNCHANGED songs
       ELSE /\ songs' = [i \in 1..Len(tracks) |-> TrackMetadata(tracks[i], album_name)]
            /\ ret' = "value"
            /\ pc' = "select"
            /\ UNCHANGED <<attempt, printed, fails>>
    /\ UNCHANGED <<url, album_name, playlist_name, track_list, next_offset, selection,
                   selected_songs, outpath, idx, files, dirs, tries, srvSent, typed, log>>

(***************************************************************************)
(* fetch_playlist_metadata.                                                *)
(***************************************************************************)
\* "if not next_offset"
Falsy(n) == n = 0

\* the locals of an iteration that raised stay as they are until the next
\* iteration assigns them; they are gone when the function returns
LocalsAfterFailure ==
    IF attempt < max_retries - 1
    THEN UNCHANGED <<track_list, next_offset>>
    ELSE track_list' = <<>> /\ next_offset' = 0

\* variant: the entries collected so far are returned
ExhaustedResult_mut(list) ==
    [i \in 1..Len(list) |-> TrackMetadata(list[i], GetAlbum(list[i]))]
\* "return None, None": nothing of the list collected so far reaches main()
ExhaustedResult(list) == <<>>

\* variant: the list of the attempt before is kept
FreshList_mut == track_list
\* "track_list = []" at the start of every attempt
FreshList == <<>>

\* GET /metadata/playlist/{id}; track_list and next_offset start afresh
FetchPlaylistMetadata(resp, name) ==
    /\ pc = "playlist_metadata"
    /\ EnterTry
    /\ wire' = Exchange("metadata_playlist", 0, resp, 0)
    /\ srvSent' = <<>>
    /\ IF RaisesRequestException(resp)
       THEN /\ FetchFailed("playlist_metadata")
            /\ LocalsAfterFailure
            /\ UNCHANGED playlist_name
       ELSE /\ playlist_name' = name
            /\ track_list' = FreshList
            /\ next_offset' = 0
            /\ pc' = "playlist_page"
            /\ NoFail
            /\ UNCHANGED <<attempt, ret, printed>>
    /\ UNCHANGED <<url, album_name, songs, selection, selected_songs, outpath, idx,
                   files, dirs, typed, log>>

\* variant: the offset is the number of entries collected
PageOffset_mut == Len(track_list)
\* the offset the next page request names
PageOffset == next_offset

\* track_list.extend(data['trackList'])
Extend(list, page) == list \o page

\* GET /tracklist/playlist/{id}?offset={next_offset}: one turn of "while True"
FetchPlaylistPage(resp, page, next) ==
    /\ pc = "playlist_page"
    /\ Len(srvSent) + Len(page) <= MaxTracks
    /\ wire' = Exchange("tracklist_playlist", PageOffset, resp, next)
    /\ IF RaisesRequestException(resp)
       THEN /\ FetchFailed("playlist_metadata")
            /\ LocalsAfterFailure
            /\ songs' = IF attempt < max_retries - 1 THEN songs ELSE ExhaustedResult(track_list)
            /\ UNCHANGED srvSent
       ELSE /\ srvSent' = srvSent \o page
            /\ UNCHANGED <<attempt, printed, fails>>
            /\ IF Falsy(next)
               THEN /\ songs' = [i \in 1..Len(Extend(track_list, page)) |->
                                   TrackMetadata(Extend(track_list, page)[i],
                                                 GetAlbum(Extend(track_list, page)[i]))]
                    /\ ret' = "value"
                    /\ pc' = "select"
                    /\ track_list' = <<>>
                    /\ next_offset' = 0
               ELSE /\ track_list' = Extend(track_list, page)
                    /\ next_offset' = next
                    /\ UNCHANGED <<songs, ret, pc>>
    /\ UNCHANGED <<url, album_name, playlist_name, selection, selected_songs, outpath,
                   idx, files, dirs, tries, typed, log>>

(***************************************************************************)
(* The selection prompt of the album and playlist branches.                *)
(***************************************************************************)
\* the numbers a user may type: below, inside and above 1..len(songs)
TypedNumbers == (0 - 1)..(MaxTracks + 1)

\* decimal text of an integer of at most two digits
RenderInt(n) ==
    LET d == <<"0", "1", "2", "3", "4", "5", "6", "7", "8", "9">>
        m == IF n < 0 THEN 0 - n ELSE n
        text == IF m < 10 THEN <<d[m + 1]>> ELSE <<d[(m \div 10) + 1], d[(m % 10) + 1]>>
    IN  IF n < 0 THEN <<"-">> \o text ELSE text

\* how the user lays the numbers out on the line
Layouts == {[lead |-> <<>>, sep |-> <<" ">>, trail |-> <<>>],
            [lead |-> <<" ">>, sep |-> <<"\t", " ">>, trail |-> <<"\n">>]}

\* the line typed for the numbers ns in layout l
TypedLine(ns, l) ==
    l.lead \o JoinWith(l.sep, [i \in 1..Len(ns) |-> RenderInt(ns[i])]) \o l.trail

\* a line that is not a list of integers
GarbageLine == <<"1", " ", "x">>

\* variant: the numbers are taken as zero-based
Indices_mut(line) == [i \in 1..Len(Split(line)) |-> IntOf(Split(line)[i])]
\* [int(x) - 1 for x in selection.split()]
Indices(line) == [i \in 1..Len(Split(line)) |-> IntOf(Split(line)[i]) - 1]

\* "0 <= i < len(songs)"
InRange(i, list) == 0 <= i /\ i < Len(list)

RECURSIVE Pick(_, _)
\* [songs[i] for i in indices if 0 <= i < len(songs)]; Python's songs[i] is
\* the (i+1)-th element, and for -len <= i < 0 the (len+i+1)-th
Pick(list, indices) ==
    IF indices = <<>> THEN <<>>
    ELSE LET i == Head(indices)
         IN  IF InRange(i, list)
             THEN <<list[IF i >= 0 THEN i + 1 ELSE Len(list) + i + 1]>>
                      \o Pick(list, Tail(indices))
             ELSE Pick(list, Tail(indices))

\* selected_songs for the line read
FilterSelection(list, line) ==
    IF Strip(line) # <<>> THEN Pick(list, Indices(line)) ELSE list

\* input(...) at the selection prompt, the folder and the start of the loop
\* variant: the folder is named by the title as the service sent it
Folder_mut(name) == name
\* album_folder / playlist_folder of main()
Folder(name) == normalize_filename(name)

Select(line, ns) ==
    /\ pc = "select"
    /\ selection' = line
    /\ typed' = ns
    /\ IF Strip(line) # <<>> /\ \E i \in 1..Len(Split(line)) : ~IsIntLiteral(Split(line)[i])
       THEN \* int(x) raises ValueError, which nothing catches
            /\ pc' = "crashed"
            /\ UNCHANGED <<selected_songs, outpath, dirs, idx, printed, log>>
       ELSE LET folder == Folder(IF Classify(url) = "album"
                                 THEN album_name ELSE playlist_name)
                chosen == FilterSelection(songs, line)
            IN  /\ selected_songs' = chosen
                /\ outpath' = PathJoin(outpath, folder)
                /\ dirs' = dirs \cup {PathJoin(outpath, folder)}
                /\ log' = Append(log, MakedirsEvent)
                /\ IF chosen = <<>>
                   THEN pc' = "done" /\ printed' = "completed" /\ idx' = idx
                   ELSE pc' = "download" /\ idx' = 1 /\ UNCHANGED printed
    /\ attempt' = 0
    /\ UNCHANGED <<url, album_name, playlist_name, track_list, next_offset, ret, songs,
                   files, tries, fails, wire, srvSent>>

(***************************************************************************)
(* download_track and persist_audio_file.                                  *)
(***************************************************************************)

\* variant: the name is not normalised before the test
CheckedPath_mut(track, dir) == Mp3Path(dir, track.title \o <<" ", "-", " ">> \o track.artists)
\* the path os.path.exists() is asked about
CheckedPath(track, dir) == Mp3Path(dir, TargetName(track))

\* variant: the name written is not normalised
WrittenPath_mut(track, dir) == Mp3Path(dir, track.title \o <<" ", "-", " ">> \o track.artists)
\* the path open(..., "wb") is given
WrittenPath(track, dir) == Mp3Path(dir, TargetName(track))

\* variant: only the files that were there when the run started are seen
Exists_mut(path) == path \in DOMAIN files /\ files[path] = OldContent
\* os.path.exists(path)
Exists(path) == path \in DOMAIN files

\* the file system after content is stored at path
Store(path, content) ==
    [p \in DOMAIN files \cup {path} |-> IF p = path THEN content ELSE files[p]]

\* "if audio_response.status_code == 200"
IsWritable(resp) == resp.status_code = 200

\* what download_track prints when persist_audio_file returns False
ReportForFalse == "Skipped"

\* the for loop of main() moves on to the next song, or main() finishes
NextSong ==
    IF idx < Len(selected_songs)
    THEN /\ idx' = idx + 1
         /\ attempt' = 0
         /\ UNCHANGED <<pc, printed>>
    ELSE /\ pc' = "done"
         /\ printed' = "completed"
         /\ UNCHANGED <<idx, attempt>>

\* variant: the retry goes on with the next song
RetrySameSong_mut ==
    /\ attempt' = attempt + 1
    /\ idx' = IF idx < Len(selected_songs) THEN idx + 1 ELSE idx
    /\ UNCHANGED <<pc, printed>>
\* "if attempt < max_retries - 1" of download_track: the same song again
RetrySameSong ==
    /\ attempt' = attempt + 1
    /\ UNCHANGED <<pc, idx, printed>>

\* an iteration of download_track in which the target file is already there
DownloadExisting ==
    /\ pc = "download"
    /\ Exists(CheckedPath(selected_songs[idx], outpath))
    /\ EnterTry
    /\ NoFail
    /\ log' = Append(log, OutcomeEvent(idx, selected_songs[idx].tid, ReportForFalse))
    /\ NextSong
    /\ UNCHANGED <<resolveVars, selected_songs, outpath, files, dirs, wire>>

\* an iteration of download_track that asks the delivery endpoint:
\* resp is the exchange, w what happens when the file is written
DownloadRequest(resp, w) ==
    LET track == selected_songs[idx] IN
    /\ pc = "download"
    /\ ~Exists(CheckedPath(track, outpath))
    /\ EnterTry
    /\ wire' = Exchange("track", 0, resp, 0)
    /\ IF RaisesRequestException(resp)
       THEN \* except requests.RequestException
            /\ fails' = (IF attempt = 0 THEN 0 ELSE fails) + 1
            /\ UNCHANGED files
            /\ IF attempt < max_retries - 1
               THEN /\ RetrySameSong
                    /\ log' = Append(log, RequestEvent(idx, track.tid))
               ELSE /\ log' = log \o <<RequestEvent(idx, track.tid),
                                       OutcomeEvent(idx, track.tid, "Failed")>>
                    /\ NextSong
       ELSE /\ NoFail
            /\ IF IsWritable(resp)
               THEN IF w = "ok"
                    THEN /\ files' = Store(WrittenPath(track, outpath), Payload(track.tid))
                         /\ log' = log \o <<RequestEvent(idx, track.tid),
                                            WriteEvent(idx, track.tid),
                                            OutcomeEvent(idx, track.tid, "Written")>>
                         /\ NextSong
                    ELSE \* OSError leaves download_track and main()
                         /\ files' = IF w = "write_fails"
                                     THEN Store(WrittenPath(track, outpath), Truncated(track.tid))
                                     ELSE files
                         /\ log' = log \o <<RequestEvent(idx, track.tid)>>
                                       \o (IF w = "write_fails"
                                           THEN <<WriteEvent(idx, track.tid)>> ELSE <<>>)
                         /\ pc' = "crashed"
                         /\ UNCHANGED <<idx, attempt, printed>>
               ELSE /\ UNCHANGED files
                    /\ log' = log \o <<RequestEvent(idx, track.tid),
                                       OutcomeEvent(idx, track.tid, ReportForFalse)>>
                    /\ NextSong
    /\ UNCHANGED <<resolveVars, selected_songs, outpath, dirs>>

(***************************************************************************)
(* The program.                                                            *)
(***************************************************************************)
\* the lines typed at the selection prompt in a run: all, one, two in
\* either order, the same twice, and numbers outside the list
RunSelections == {<<>>, <<1>>, <<1, 2>>, <<2, 1>>, <<1, 1>>, <<0, MaxTracks + 1>>}
PlainLayout == [lead |-> <<>>, sep |-> <<" ">>, trail |-> <<>>]

Next ==
    \/ \E link \in Urls : InputUrl(link)
    \/ \E resp \in MetadataResponses, success \in BOOLEAN, track \in RawTracks :
          FetchTrackMetadata(resp, success, track)
    \/ \E resp \in MetadataResponses, name \in CollectionNames :
          FetchAlbumMetadata(resp, name)
    \/ \E resp \in MetadataResponses, tracks \in TrackLists :
          FetchAlbumTracklist(resp, tracks)
    \/ \E resp \in MetadataResponses, name \in CollectionNames :
          FetchPlaylistMetadata(resp, name)
    \/ \E a \in PageAnswers : FetchPlaylistPage(a.resp, a.trackList, a.nextOffset)
    \/ \E ns \in RunSelections : Select(TypedLine(ns, PlainLayout), ns)
    \/ Select(GarbageLine, <<>>)
    \/ DownloadExisting
    \/ \E resp \in DeliveryResponses, w \in WriteOutcomes : DownloadRequest(resp, w)

Spec == Init /\ [][Next]_vars

(***************************************************************************)
(* The same program with fewer inputs, for the properties of termination:  *)
(* an empty working directory, one collection name, pages of at most one   *)
(* entry, and every answer of the service to every request.  The script is *)
(* a running process: while a statement can be executed, one is.           *)
(***************************************************************************)
LiveName == <<"m">>
LivePageAnswers == {a \in PageAnswers : a.trackList \in {<<>>, <<RawTrack1>>}}
LiveSelections == {<<1>>, <<1, 1>>}

InitLive == Init /\ DOMAIN files = {}

NextLive ==
    \/ \E link \in Urls : InputUrl(link)
    \/ \E resp \in MetadataResponses, success \in BOOLEAN :
          FetchTrackMetadata(resp, success, RawTrack1)
    \/ \E resp \in MetadataResponses : FetchAlbumMetadata(resp, LiveName)
    \/ \E resp \in MetadataResponses : FetchAlbumTracklist(resp, <<RawTrack1>>)
    \/ \E resp \in MetadataResponses : FetchPlaylistMetadata(resp, LiveName)
    \/ \E a \in LivePageAnswers : FetchPlaylistPage(a.resp, a.trackList, a.nextOffset)
    \/ \E ns \in LiveSelections : Select(TypedLine(ns, PlainLayout), ns)
    \/ DownloadExisting
    \/ \E resp \in DeliveryResponses, w \in WriteOutcomes : DownloadRequest(resp, w)

SpecLive == InitLive /\ [][NextLive]_vars /\ WF_vars(NextLive)

(***************************************************************************)
(* The script run twice in the same working directory: when main() has     *)
(* returned or an uncaught exception has ended the process, the user       *)
(* starts the script again; files and directories stay, everything else is *)
(* as at the start.  The service answers the metadata requests.            *)
(***************************************************************************)
RestartEvent == [ev |-> "restart", idx |-> 0, tid |-> "", outcome |-> "none"]
InSecondRun == log # <<>> /\ log[1] = RestartEvent
RerunLists == {<<RawTrack1>>, <<RawTrack3, RawTrack2>>}
RerunSelections == {<<1>>, <<1, 1>>, <<2, 1>>}

Restart ==
    /\ pc \in {"done", "crashed"}
    /\ ~InSecondRun
    /\ pc' = "input_url"
    /\ url' = <<>>
    /\ attempt' = 0
    /\ album_name' = <<>>
    /\ playlist_name' = <<>>
    /\ track_list' = <<>>
    /\ next_offset' = 0
    /\ ret' = "pending"
    /\ songs' = <<>>
    /\ selection' = <<>>
    /\ selected_songs' = <<>>
    /\ outpath' = Cwd
    /\ idx' = 0
    /\ printed' = "none"
    /\ tries' = 0
    /\ fails' = 0
    /\ wire' = Exchange("none", 0, NoResponse, 0)
    /\ srvSent' = <<>>
    /\ typed' = <<>>
    /\ log' = <<RestartEvent>>
    /\ UNCHANGED <<files, dirs>>

NextRerun ==
    \/ \E link \in {UrlTrack, UrlAlbum} : InputUrl(link)
    \/ \E track \in {RawTrack1, RawTrack3} : FetchTrackMetadata(HttpResponse(200), TRUE, track)
    \/ FetchAlbumMetadata(HttpResponse(200), LiveName)
    \/ \E tracks \in RerunLists : FetchAlbumTracklist(HttpResponse(200), tracks)
    \/ \E ns \in RerunSelections : Select(TypedLine(ns, PlainLayout), ns)
    \/ DownloadExisting
    \/ \E resp \in DeliveryResponses, w \in WriteOutcomes : DownloadRequest(resp, w)
    \/ Restart

SpecRerun == InitLive /\ [][NextRerun]_vars

(***************************************************************************)
(* normalize_filename on its own: fetch_playlist_metadata has received a   *)
(* first page with one entry whose title and artists are any strings of    *)
(* SanitizeInputs; the last page arrives, the entries become               *)
(* TrackMetadata, the track is selected and its file is written.           *)
(***************************************************************************)
\* longest title drawn from SanitizeAlphabet
MaxStrLen == 3
SanitizeAlphabet == {"a", " ", "\t", "\\", "'"}
\* every short string, and every forbidden or whitespace character alone and
\* between two letters
SanitizeInputs ==
    BoundedSeq(SanitizeAlphabet, MaxStrLen)
        \cup {<<c>> : c \in FILENAME_SANITIZATION_PATTERN \cup Whitespace}
        \cup {<<"a", c, "a">> : c \in FILENAME_SANITIZATION_PATTERN \cup Whitespace}
SanitizeArtists == {<<>>, <<"b">>, <<" ", "?">>, <<"b", "\n", " ", "b">>}

InitSanitize ==
    /\ pc = "playlist_page"
    /\ url = UrlPlaylist
    /\ attempt = 0
    /\ album_name = <<>>
    /\ playlist_name = <<"m">>
    /\ \E t \in SanitizeInputs, a \in SanitizeArtists :
          track_list = <<[id |-> "1", title |-> t, artists |-> a,
                          has_album |-> FALSE, album |-> <<>>]>>
    /\ srvSent = track_list
    /\ next_offset = 1
    /\ ret = "pending"
    /\ songs = <<>>
    /\ selection = <<>>
    /\ selected_songs = <<>>
    /\ outpath = Cwd
    /\ idx = 0
    /\ files = [p \in {} |-> OldContent]
    /\ dirs = {Cwd}
    /\ printed = "none"
    /\ tries = 1
    /\ fails = 0
    /\ wire = Exchange("tracklist_playlist", 0, HttpResponse(200), 1)
    /\ typed = <<>>
    /\ log = <<>>

NextSanitize ==
    \/ FetchPlaylistPage(HttpResponse(200), <<>>, 0)
    \/ Select(TypedLine(<<1>>, PlainLayout), <<1>>)
    \/ DownloadRequest(HttpResponse(200), "ok")

SpecSanitize == InitSanitize /\ [][NextSanitize]_vars

(***************************************************************************)
(* The selection prompt on its own: main() has fetched an album at the     *)
(* first attempt and reads the line; every line of at most MaxSelLen       *)
(* numbers in either layout is typed.                                      *)
(***************************************************************************)
InitFilter ==
    /\ pc = "select"
    /\ url = UrlAlbum
    /\ attempt = 0
    /\ album_name \in CollectionNames
    /\ playlist_name = <<>>
    /\ track_list = <<>>
    /\ next_offset = 0
    /\ ret = "value"
    /\ \E tracks \in TrackLists :
          songs = [i \in 1..Len(tracks) |-> TrackMetadata(tracks[i], album_name)]
    /\ selection = <<>>
    /\ selected_songs = <<>>
    /\ outpath = Cwd
    /\ idx = 0
    /\ files = << >>
    /\ dirs = {Cwd}
    /\ printed = "none"
    /\ tries = 1
    /\ fails = 0
    /\ wire = Exchange("tracklist_album", 0, HttpResponse(200), 0)
    /\ srvSent = <<>>
    /\ typed = <<>>
    /\ log = <<>>

NextFilter ==
    \/ \E ns \in BoundedSeq(TypedNumbers, MaxSelLen), l \in Layouts :
          Select(TypedLine(ns, l), ns)
    \/ Select(GarbageLine, <<>>)

SpecFilter == InitFilter /\ [][NextFilter]_vars

TypeOK ==
    /\ pc \in {"input_url", "track_metadata", "album_metadata", "album_tracklist",
               "playlist_metadata", "playlist_page", "select", "download", "done",
               "crashed"}
    /\ attempt \in 0..(max_retries - 1)
    /\ ret \in {"pending", "value", "None"}
    /\ printed \in {"none", "fetch_failed", "completed"}
    /\ next_offset \in 0..MaxOffset
    /\ idx \in 0..Len(selected_songs)

(***************************************************************************)
(* Properties.                                                             *)
(***************************************************************************)
\* positions of log holding an event of kind ev for the i-th selected song
EventsOf(ev, i) == {k \in 1..Len(log) : log[k].ev = ev /\ log[k].idx = i}

\* the i-th selected song has had its outcome printed
Reported(i) == EventsOf("outcome", i) # {}

\* the retry loop that ran last was the one of a fetch_* function
InFetchLoop == \A k \in 1..Len(log) : log[k].ev \notin {"request", "outcome"}

\* the last thing the run did was to print the outcome o of a song
JustReported(o) ==
    /\ log # <<>>
    /\ log[Len(log)].ev = "outcome"
    /\ log[Len(log)].outcome = o

\* the file the claim names for a song: "<sanitize(title + ' - ' + artists)>.mp3"
\* under the output directory
TargetFile(song) ==
    [dir |-> outpath,
     name |-> normalize_filename(song.title \o <<" ", "-", " ">> \o song.artists)
                 \o <<".", "m", "p", "3">>]

\* C1: a failure of the k-th selected song, whether its delivery requests
\* fail on every attempt or its file cannot be written, never keeps the later
\* songs from being attempted: when the run is over, every song selected
\* after the one the run was at has its own outcome reported.
C1_BatchContinues ==
    (pc \in {"done", "crashed"} /\ idx >= 1)
        => \A i \in (idx + 1)..Len(selected_songs) : Reported(i)

\* C2: a retried operation is attempted at most 3 times; one that succeeds
\* has been attempted once more than it failed (so after two failures it
\* succeeds on exactly the third attempt), and one that failed 3 times ends in
\* failure with no fourth attempt.
C2_RetryBudget ==
    /\ tries <= 3
    /\ fails <= 3
    /\ (InFetchLoop /\ ret = "value") => tries = fails + 1
    /\ (InFetchLoop /\ fails = 3) => (ret = "None" /\ tries = 3 /\ pc = "done")
    /\ ret = "None" => (fails = 3 /\ tries = 3)
    /\ (JustReported("Written") \/ JustReported("Skipped")) => tries = fails + 1
    /\ JustReported("Failed") => (fails = 3 /\ tries = 3)
    /\ (~InFetchLoop /\ fails = 3) => (JustReported("Failed") /\ tries = 3)

\* a song was written on the third attempt, after two failed ones
C2_Witness ==
    /\ JustReported("Written")
    /\ fails = 2
    /\ tries = 3
    /\ Cardinality(EventsOf("request", log[Len(log)].idx)) = 3

\* C3: when a song's target file already exists, the iteration reports Skipped
\* and sends nothing to the delivery endpoint; and no step ever removes or
\* changes a file that exists.
C3_NeverOverwrites ==
    [][ /\ \A p \in DOMAIN files : p \in DOMAIN files' /\ files'[p] = files[p]
        /\ (pc = "download" /\ TargetFile(selected_songs[idx]) \in DOMAIN files)
              => /\ log' = Append(log, OutcomeEvent(idx, selected_songs[idx].tid, "Skipped"))
                 /\ wire' = wire
                 /\ files' = files ]_vars

\* a song was skipped without any request, and its file is the old one
C3_Witness ==
    \E i \in 1..Len(selected_songs) :
        /\ \E k \in EventsOf("outcome", i) : log[k].outcome = "Skipped"
        /\ EventsOf("request", i) = {}
        /\ TargetFile(selected_songs[i]) \in DOMAIN files
        /\ files[TargetFile(selected_songs[i])] = OldContent

\* the step sent a request to the delivery endpoint
DeliveryStep == Len(log') > Len(log) /\ log'[Len(log) + 1].ev = "request"

\* C4: a delivery answer with any status other than 200 makes the persist
\* call a failure: that call reports neither Written nor Skipped for the song
\* and creates no file.
C4_Non200IsFailure ==
    [][ (DeliveryStep /\ ~wire'.resp.exc /\ wire'.resp.status_code # 200)
           => /\ files' = files
              /\ \A k \in (Len(log) + 1)..Len(log') :
                    log'[k].outcome \notin {"Written", "Skipped"} ]_vars

\* C5: a fetch_* function that failed on all 3 attempts hands main() nothing:
\* no descriptor, resolution failure reported, and the run ends without a
\* delivery request, a directory made or a file written.
C5_FailedResolutionStops ==
    /\ (InFetchLoop /\ fails = 3) => ret = "None"
    /\ ret = "None" =>
          /\ songs = <<>>
          /\ selected_songs = <<>>
          /\ printed = "fetch_failed"
          /\ pc = "done"
          /\ log = <<>>
          /\ \A p \in DOMAIN files : files[p] = OldContent

\* all three attempts of a fetch failed and the run is over
C5_Witness == ret = "None" /\ fails = 3 /\ tries = 3 /\ pc = "done"

\* C6: fetch_playlist_metadata hands main() either every entry of every page
\* the service sent in the attempt that ran to the last page, or nothing: a
\* run whose attempts are used up has no song, whatever pages were fetched.
C6_PlaylistAllOrNothing ==
    Classify(url) = "playlist" =>
        /\ ret # "value" => (songs = <<>> /\ selected_songs = <<>>)
        /\ ret = "value" =>
              /\ Len(songs) = Len(srvSent)
              /\ \A i \in 1..Len(songs) : songs[i].tid = srvSent[i].id
        /\ pc = "select" =>
              /\ wire.ep = "tracklist_playlist"
              /\ wire.resp = HttpResponse(200)
              /\ wire.next = 0

\* the third attempt failed after the service had sent a page of it
C6_Witness ==
    /\ Classify(url) = "playlist"
    /\ ret = "None"
    /\ srvSent # <<>>
    /\ songs = <<>>

\* C7: in an attempt of fetch_playlist_metadata the first page request names
\* offset 0 and every later one the nextOffset of the answer before it; the
\* paging goes on exactly while the answers carry a nextOffset other than 0;
\* the entries collected, and the songs returned, are those of the pages in
\* the order they were sent.
C7_Pagination ==
    [][ pc = "playlist_page" =>
          /\ wire'.ep = "tracklist_playlist"
          /\ wire'.offset = (IF wire.ep = "metadata_playlist" THEN 0 ELSE wire.next)
          /\ wire'.resp = HttpResponse(200) => (pc' = "select" <=> wire'.next = 0)
          /\ pc' = "playlist_page" => track_list' = srvSent'
          /\ pc' = "select" =>
                songs' = [i \in 1..Len(srvSent') |->
                            [title |-> normalize_filename(srvSent'[i].title),
                             artists |-> normalize_filename(srvSent'[i].artists),
                             album |-> IF srvSent'[i].has_album
                                       THEN srvSent'[i].album ELSE UnknownAlbum,
                             tid |-> srvSent'[i].id]] ]_vars

\* a playlist of two pages has been resolved, the second asked for at the
\* offset the first answer named
C7_Witness ==
    /\ pc = "select"
    /\ Classify(url) = "playlist"
    /\ wire.ep = "tracklist_playlist"
    /\ wire.offset = 2
    /\ srvSent = <<RawTrack1, RawTrack2>>
    /\ Len(songs) = 2
    /\ songs[1].tid = "1"
    /\ songs[2].tid = "2"

\* the songs the typed numbers ask for: songs[n] (1-based) for every typed n
\* with 1 <= n <= len, in the order typed
Asked ==
    LET valid == SelectSeq(typed, LAMBDA n : 1 <= n /\ n <= Len(songs))
    IN  [i \in 1..Len(valid) |-> songs[valid[i]]]

\* C8: after the selection prompt selected_songs holds, for a line of
\* whitespace-separated integers, exactly the songs the in-range integers
\* name, in the order typed and with repetitions; integers outside
\* 1..len(songs), 0 and negative ones included, select nothing; a blank line
\* selects the whole list.
C8_SelectionFilter ==
    (pc \in {"download", "done"} /\ ret = "value" /\ Classify(url) # "track") =>
        /\ \E l \in Layouts : selection = TypedLine(typed, l)
        /\ typed = <<>> => (Strip(selection) = <<>> /\ selected_songs = songs)
        /\ typed # <<>> => selected_songs = Asked

\* "0 2" typed for a list of two songs selects the second one only
C8_Witness ==
    /\ pc = "download"
    /\ typed = <<0, 2>>
    /\ Len(songs) = 2
    /\ selected_songs = <<songs[2]>>

\* C9: the songs are downloaded one at a time in the order of selected_songs:
\* whatever the run does for a song (request, write, outcome) comes after the
\* outcomes of all earlier songs and after no outcome of that song or a later
\* one, so no song is started before the one before it is reported.
C9_Sequential ==
    \A k \in 1..Len(log) :
        log[k].ev \in {"request", "write", "outcome"} =>
            /\ log[k].idx \in 1..Len(selected_songs)
            /\ log[k].tid = selected_songs[log[k].idx].tid
            /\ \A j \in 1..(log[k].idx - 1) :
                  \E m \in 1..(k - 1) : log[m].ev = "outcome" /\ log[m].idx = j
            /\ \A m \in 1..(k - 1) : log[m].ev = "outcome" => log[m].idx < log[k].idx

\* the second selected song is requested after the first one was requested
\* and reported
C9_Witness ==
    /\ EventsOf("request", 1) # {}
    /\ EventsOf("request", 2) # {}
    /\ Reported(1)

\* C10 as stated: failure is only ever reported after 3 attempts, whatever
\* kind of failure it was
C10_AllFailuresRetried ==
    /\ printed = "fetch_failed" => tries = 3
    /\ JustReported("Failed") => tries = 3

\* the step sent a request (every step of a fetch_* function does)
RequestStep ==
    \/ pc \in {"track_metadata", "album_metadata", "album_tracklist",
               "playlist_metadata", "playlist_page"}
    \/ DeliveryStep

\* where the retry loop of the running function starts over
LoopStart ==
    CASE pc \in {"album_metadata", "album_tracklist"} -> "album_metadata"
      [] pc \in {"playlist_metadata", "playlist_page"} -> "playlist_metadata"
      [] OTHER -> pc

\* C10: a request that ends in a transport error or in an HTTP error status
\* (404 not found) is retried in the same way, until 3 attempts are used up:
\* before the third attempt nothing is reported and the loop starts over, at
\* the third the failure is reported.  Failure is reported after fewer than 3
\* attempts only for a /download answer with status 200 (success = false).
C10_ErrorsRetriedAlike ==
    /\ [](printed = "fetch_failed" =>
            \/ tries = 3
            \/ /\ Classify(url) = "track"
               /\ ret = "value"
               /\ wire = Exchange("download", 0, HttpResponse(200), 0)
               /\ tries = fails + 1)
    /\ [](JustReported("Failed") => (tries = 3 /\ fails = 3))
    /\ [][ (RequestStep /\ (wire'.resp.exc \/ wire'.resp.status_code = 404)) =>
              IF tries' < 3
              THEN /\ pc' = LoopStart
                   /\ attempt' = attempt + 1
                   /\ tries' = attempt'
                   /\ printed' = printed
                   /\ ret' = ret
                   /\ \A k \in (Len(log) + 1)..Len(log') : log'[k].ev # "outcome"
              ELSE IF pc = "download"
                   THEN log'[Len(log')] = OutcomeEvent(idx, selected_songs[idx].tid, "Failed")
                   ELSE ret' = "None" /\ printed' = "fetch_failed" /\ pc' = "done" ]_vars

\* three answers "404 not found" in a row: the fetch gave up at the third
C10_Witness ==
    /\ ret = "None"
    /\ tries = 3
    /\ fails = 3
    /\ wire.resp = HttpResponse(404)

\* main() is inside fetch_playlist_metadata
InPlaylistFetch == pc \in {"playlist_metadata", "playlist_page"}

\* the last exchange was a page answer that announces a further page
MorePagesAnnounced ==
    /\ wire.ep = "tracklist_playlist"
    /\ wire.resp = HttpResponse(200)
    /\ wire.next # 0

\* C11: every resolution that was started returns, with a result or with
\* the failure reported, whatever the service answers to the requests; in
\* particular fetch_playlist_metadata returns for every sequence of page
\* answers.
C11_ResolutionAlwaysEnds ==
    (pc \in {"track_metadata", "album_metadata", "album_tracklist",
             "playlist_metadata", "playlist_page"}) ~> (ret # "pending")

\* What does hold of termination: the resolution of a track or an album
\* always returns, and so does every run of downloads (with the outcomes
\* printed, or ended by the error raised when a file is written); the
\* resolution of a playlist returns provided the service does not go on for
\* ever announcing a further page.
EndsUnlessPagesNeverEnd ==
    /\ (pc \in {"track_metadata", "album_metadata", "album_tracklist"}) ~> (ret # "pending")
    /\ (pc = "download") ~> (pc \in {"done", "crashed"})
    /\ ([]<>(~MorePagesAnnounced)) => (InPlaylistFetch ~> (ret # "pending"))

\* the three properties of a name that is safe and tidy
NoForbidden(s) == \A i \in 1..Len(s) : s[i] \notin FILENAME_SANITIZATION_PATTERN
Trimmed(s) == s = <<>> \/ (s[1] \notin Whitespace /\ s[Len(s)] \notin Whitespace)
NoWhitespaceRun(s) ==
    \A i \in 1..(Len(s) - 1) : ~(s[i] \in Whitespace /\ s[i + 1] \in Whitespace)
Sanitized(s) == NoForbidden(s) /\ Trimmed(s) /\ NoWhitespaceRun(s)

\* C12: for every string the service sends as a title or as artists,
\* normalize_filename of it (which is what the track of main() carries) has
\* no forbidden character, no whitespace at either end and no two
\* whitespace characters in a row.
C12_SanitizeOutput ==
    /\ \A i \in 1..Len(srvSent) :
          /\ Sanitized(normalize_filename(srvSent[i].title))
          /\ Sanitized(normalize_filename(srvSent[i].artists))
    /\ ret = "value" =>
          /\ Len(songs) = Len(srvSent)
          /\ \A i \in 1..Len(songs) :
                /\ songs[i].title = normalize_filename(srvSent[i].title)
                /\ songs[i].artists = normalize_filename(srvSent[i].artists)
                /\ Sanitized(songs[i].title)
                /\ Sanitized(songs[i].artists)

\* a title with a forbidden character, whitespace at one end and a run of
\* whitespace has been turned into a non-empty title
C12_Witness ==
    /\ ret = "value"
    /\ Len(songs) = 1
    /\ ~NoForbidden(srvSent[1].title)
    /\ ~Trimmed(srvSent[1].title)
    /\ songs[1].title # <<>>
    /\ ~Sanitized(srvSent[1].artists)

\* stem of a file name: the name without ".mp3"
Stem(name) == SubSeq(name, 1, Len(name) - 4)

\* C13: normalize_filename applied to its own result changes nothing, for
\* every title and artists string the service sends; and the name of every
\* file written, which persist_audio_file computes from the normalised title
\* and artists, is not changed by normalize_filename either (with or
\* without its ".mp3").
C13_Idempotent ==
    /\ \A i \in 1..Len(srvSent) :
          /\ normalize_filename(normalize_filename(srvSent[i].title))
                = normalize_filename(srvSent[i].title)
          /\ normalize_filename(normalize_filename(srvSent[i].artists))
                = normalize_filename(srvSent[i].artists)
    /\ \A p \in DOMAIN files :
          /\ normalize_filename(Stem(p.name)) = Stem(p.name)
          /\ normalize_filename(p.name) = p.name
    /\ \A i \in 1..Len(selected_songs) :
          normalize_filename(TargetName(selected_songs[i])) = TargetName(selected_songs[i])

\* a file has been written for a track whose title and artists were both
\* changed by normalize_filename
C13_Witness ==
    /\ pc = "done"
    /\ DOMAIN files # {}
    /\ Len(srvSent) = 1
    /\ normalize_filename(srvSent[1].title) # srvSent[1].title
    /\ normalize_filename(srvSent[1].artists) # srvSent[1].artists
    /\ normalize_filename(srvSent[1].title) # <<>>

\* the link has the word in it
HasAlbum == Contains(url, <<"a", "l", "b", "u", "m">>)
HasPlaylist == Contains(url, <<"p", "l", "a", "y", "l", "i", "s", "t">>)

\* the run has entered, and only ever entered, the fetch function whose
\* positions are fetchPcs and whose endpoints are eps: main() is there or
\* past it, and no metadata request of the run went anywhere else
ResolverIs(fetchPcs, eps) ==
    /\ pc \in fetchPcs \cup {"select", "download", "done", "crashed"}
    /\ wire.ep \in eps \cup {"none", "track"}
    /\ pc \notin fetchPcs => (tries >= 1 /\ wire.ep # "none")

\* C14: once the link is read, a link with "album" in it is resolved by
\* fetch_album_metadata, also when it has "playlist" in it; a link without
\* "album" and with "playlist" by fetch_playlist_metadata; any other link by
\* fetch_track_metadata; and the run never calls one of the other two.
C14_Classifier ==
    pc # "input_url" =>
        /\ HasAlbum =>
              ResolverIs({"album_metadata", "album_tracklist"},
                         {"metadata_album", "tracklist_album"})
        /\ (~HasAlbum /\ HasPlaylist) =>
              ResolverIs({"playlist_metadata", "playlist_page"},
                         {"metadata_playlist", "tracklist_playlist"})
        /\ (~HasAlbum /\ ~HasPlaylist) =>
              ResolverIs({"track_metadata"}, {"download"})

\* a link with both words in it has been resolved as an album
C14_Witness ==
    /\ HasAlbum
    /\ HasPlaylist
    /\ pc = "select"
    /\ ret = "value"
    /\ wire.ep = "tracklist_album"

\* the step prints the outcome o for the song at idx
Reports(o) ==
    /\ pc = "download"
    /\ Len(log') > Len(log)
    /\ log'[Len(log')] = OutcomeEvent(idx, selected_songs[idx].tid, o)

\* the song main() is about to hand to download_track was written into
\* outpath before, in this run or in the one before
WrittenBefore ==
    /\ pc = "download"
    /\ Exists(CheckedPath(selected_songs[idx], outpath))
    /\ files[CheckedPath(selected_songs[idx], outpath)] = Payload(selected_songs[idx].tid)

\* C15: when persist_audio_file has written a song, the file is at the path
\* os.path.exists() is asked about; it stays there with the same content in
\* all that follows, the next run included; and every later call for the
\* same song into the same directory prints Skipped, in one step, without a
\* request to the delivery endpoint.
C15_RerunIdempotent ==
    [][/\ Reports("Written") =>
            /\ CheckedPath(selected_songs[idx], outpath) \in DOMAIN files'
            /\ files'[CheckedPath(selected_songs[idx], outpath)] = Payload(selected_songs[idx].tid)
       /\ \A p \in DOMAIN files :
            (\E t \in RawTracks : files[p] = Payload(t.id)) =>
                (p \in DOMAIN files' /\ files'[p] = files[p])
       /\ WrittenBefore =>
            /\ Reports("Skipped")
            /\ Len(log') = Len(log) + 1
            /\ wire' = wire
            /\ files' = files]_vars

\* in the second run a song written by the first run has been skipped
C15_Witness ==
    /\ InSecondRun
    /\ pc = "done"
    /\ Len(log) = 3
    /\ log[3].outcome = "Skipped"
    /\ wire.ep = "tracklist_album"
    /\ \E p \in DOMAIN files : files[p] = Payload(selected_songs[idx].tid) /\ p.dir = outpath

\* the TrackMetadata objects main() holds
Descriptors ==
    {songs[i] : i \in 1..Len(songs)} \cup {selected_songs[i] : i \in 1..Len(selected_songs)}

\* C16: the title and the artists of every TrackMetadata that
\* fetch_album_metadata or fetch_playlist_metadata returned, or that main()
\* built from the answer of fetch_track_metadata, are left as they are by
\* normalize_filename.
C16_DescriptorsSanitized ==
    \A d \in Descriptors :
        /\ normalize_filename(d.title) = d.title
        /\ normalize_filename(d.artists) = d.artists

\* the single-track branch has built the TrackMetadata of an entry whose
\* title and artists are both changed by normalize_filename
C16_Witness ==
    /\ wire.ep = "download"
    /\ pc = "download"
    /\ Len(selected_songs) = 1
    /\ selected_songs[1].tid = RawTrack3.id
    /\ selected_songs[1].title # RawTrack3.title
    /\ selected_songs[1].artists # RawTrack3.artists

\* the run is one of the album or playlist branch
CollectionRun == HasAlbum \/ HasPlaylist

\* positions in log of the events of one kind
Positions(ev) == {k \in 1..Len(log) : log[k].ev = ev}

\* C17: the directory main() makes for an album or a playlist is named by
\* normalize_filename of the title, and every file the run stores is named
\* by normalize_filename of "title - artists" plus ".mp3": neither name has
\* a forbidden character; and in an album or playlist run os.makedirs has
\* been called, and the directory is there, before any request goes to the
\* delivery endpoint.
C17_SanitizedPaths ==
    /\ Positions("makedirs") # {} =>
          /\ CollectionRun
          /\ outpath \in dirs
          /\ outpath = PathJoin(Cwd, normalize_filename(IF HasAlbum THEN album_name
                                                        ELSE playlist_name))
          /\ \A i \in 2..Len(outpath) : Sanitized(outpath[i])
    /\ \A p \in DOMAIN files :
          files[p] # OldContent =>
              /\ p.dir = outpath
              /\ NoForbidden(p.name)
              /\ Sanitized(Stem(p.name))
              /\ \E d \in Descriptors :
                    Stem(p.name) = normalize_filename(d.title \o <<" ", "-", " ">> \o d.artists)
    /\ CollectionRun =>
          \A k \in Positions("request") \cup Positions("write") :
              \E j \in Positions("makedirs") : j < k

\* a playlist whose title has a forbidden character and whitespace at one
\* end got its directory, and a track whose title has a forbidden character
\* was stored in it
C17_Witness ==
    /\ HasPlaylist
    /\ ~HasAlbum
    /\ ~NoForbidden(playlist_name)
    /\ ~Trimmed(playlist_name)
    /\ Len(outpath) = 2
    /\ \E p \in DOMAIN files : files[p] = Payload(RawTrack2.id) /\ p.dir = outpath

\* C18: every attempt of fetch_playlist_metadata starts with an empty list
\* and offset 0, whatever the attempt before had collected when it failed;
\* while it pages, the list holds the entries of its own pages only; and the
\* list returned has one song for each entry of the pages of the attempt
\* that succeeded, in their order, none of an earlier attempt and none twice.
C18_RestartFromScratch ==
    [][/\ (pc = "playlist_metadata" /\ pc' = "playlist_page") =>
            /\ track_list' = <<>>
            /\ next_offset' = 0
            /\ srvSent' = <<>>
       /\ (pc = "playlist_page" /\ wire.ep = "metadata_playlist") =>
            (wire'.offset = 0 /\ track_list = <<>>)
       /\ (pc = "playlist_page" /\ pc' = "playlist_page") =>
            \E page \in Pages : track_list' = track_list \o page /\ srvSent' = srvSent \o page
       /\ (pc = "playlist_page" /\ pc' = "select") =>
            \E page \in Pages :
                /\ srvSent' = srvSent \o page
                /\ Len(songs') = Len(track_list \o page)
                /\ \A i \in 1..Len(songs') : songs'[i].tid = (track_list \o page)[i].id]_vars

\* an attempt has failed after it had collected a page, and the next
\* attempt is about to start with those entries still in the list
C18_Witness ==
    /\ pc = "playlist_metadata"
    /\ attempt >= 1
    /\ track_list # <<>>
    /\ wire.ep = "tracklist_playlist"
    /\ RaisesRequestException(wire.resp)

\* main() is inside fetch_album_metadata or fetch_playlist_metadata
InCollectionFetch ==
    pc \in {"album_metadata", "album_tracklist", "playlist_metadata", "playlist_page"}

\* C19: in fetch_album_metadata and fetch_playlist_metadata the failures of
\* the metadata request and of the tracklist / page requests are counted
\* together: each request that fails uses up one of the 3 attempts, whichever
\* request it is, and sends the function back to the metadata request; the
\* third failed request ends the function with None and main() with the
\* failure message; a request that succeeds uses up nothing; and after the
\* third failure the run does nothing more.
C19_SharedBudget ==
    [][/\ InCollectionFetch =>
            /\ fails = attempt
            /\ fails < 3
            /\ IF RaisesRequestException(wire'.resp)
               THEN /\ fails' = fails + 1
                    /\ IF fails' = 3
                       THEN ret' = "None" /\ pc' = "done" /\ printed' = "fetch_failed"
                       ELSE ret' = "pending" /\ pc' = LoopStart /\ attempt' = attempt + 1
               ELSE /\ fails' = fails
                    /\ attempt' = attempt
                    /\ printed' = "none"
                    /\ pc' \in {"album_tracklist", "playlist_page", "select"}
       /\ ret = "None" => FALSE]_vars

\* an album resolution has used up its budget, the third failure being one
\* of the tracklist request after the metadata request had succeeded
C19_Witness ==
    /\ HasAlbum
    /\ ret = "None"
    /\ fails = 3
    /\ wire.ep = "tracklist_album"
    /\ album_name # <<>>

\* the outcomes printed for the song at position i of selected_songs
OutcomesOf(i) == {log[k].outcome : k \in EventsOf("outcome", i)}

\* positions of selected_songs that come to the same file name
SameTarget(i, j) == TargetName(selected_songs[i]) = TargetName(selected_songs[j])

\* C20: in one run no file is written twice: of the selected songs that come
\* to one file name (the same number typed twice, or two tracks with the
\* same normalised "title - artists") at most one is written; once one is
\* Written, every later one is Skipped without a request to the delivery
\* endpoint, and the file holds the payload of the one that was written.
C20_WrittenOnce ==
    \A i \in 1..Len(selected_songs) :
        /\ Cardinality({k \in Positions("write") : SameTarget(log[k].idx, i)}) <= 1
        /\ "Written" \in OutcomesOf(i) =>
              /\ files[Mp3Path(outpath, TargetName(selected_songs[i]))]
                    = Payload(selected_songs[i].tid)
              /\ \A j \in (i + 1)..Len(selected_songs) :
                    SameTarget(i, j) =>
                        /\ OutcomesOf(j) \subseteq {"Skipped"}
                        /\ EventsOf("request", j) = {}
                        /\ EventsOf("write", j) = {}

\* two tracks with different ids and the same file name were selected: the
\* first was written, the second skipped
C20_Witness ==
    /\ pc = "done"
    /\ Len(selected_songs) = 2
    /\ selected_songs[1].tid # selected_songs[2].tid
    /\ SameTarget(1, 2)
    /\ OutcomesOf(1) = {"Written"}
    /\ OutcomesOf(2) = {"Skipped"}
    /\ files[Mp3Path(outpath, TargetName(selected_songs[2]))] = Payload(selected_songs[1].tid)

====
